---- MODULE Spec2Model ----
(***************************************************************************)
(* Model of the libnotify wrapper in src/lib.rs: the Context singleton,    *)
(* the Notification values it hands out, and the calls both make into the  *)
(* native notification library.  The native library is an external         *)
(* collaborator; what the model keeps of it is its process-wide            *)
(* "initialized" flag, the set of notification objects it has allocated    *)
(* and, for each operation of the wrapper, the list of native calls the    *)
(* operation made with their arguments.                                    *)
(***************************************************************************)
EXTENDS Integers, Sequences, FiniteSets, TLC

\* ------------------------------------------------------------------ bounds
MaxLen == 2          \* longest string argument
MaxContexts == 2     \* Context values that can be live at once in the model
MaxHandles == 2      \* native notification objects ever allocated

\* ----------------------------------------------------------------- strings
\* A string is a sequence of bytes; byte 0 is the null byte.
Bytes == {0, 1}

Strings == UNION {[1..n -> Bytes] : n \in 0..MaxLen}

\* Option<&str>: None is the empty tuple, Some(s) the one-element tuple <<s>>.
OptStrings == {<<>>} \cup {<<s>> : s \in Strings}

HasNul(s) == \E i \in 1..Len(s) : s[i] = 0

FirstNul(s) == CHOOSE i \in 1..Len(s) : s[i] = 0 /\ \A j \in 1..(i - 1) : s[j] # 0

\* (mutation) a conversion that cuts the string at its first null byte, as a
\* C string copy would, and reports no error.
CStringNewTruncating(s) ==
    IF HasNul(s)
    THEN [tag |-> "Ok", buf |-> Append(SubSeq(s, 1, FirstNul(s) - 1), 0)]
    ELSE [tag |-> "Ok", buf |-> Append(s, 0)]

\* CString::new: an interior null byte is an error carrying its position and
\* the bytes; otherwise the bytes followed by the terminating null byte.
CStringNew(s) ==
    IF HasNul(s)
    THEN [tag |-> "NulError", pos |-> FirstNul(s) - 1, bytes |-> s]
    ELSE [tag |-> "Ok", buf |-> Append(s, 0)]

\* CStr::from_ptr(p).to_string_lossy().into_owned(): the bytes up to the
\* terminating null byte (all bytes of the model are ASCII).
CStrToString(buf) == SubSeq(buf, 1, FirstNul(buf) - 1)

\* The native error messages: null-terminated buffers of null-free strings.
Messages == {Append(s, 0) : s \in {x \in Strings : ~HasNul(x)}}

\* The timeouts a caller passes (-1 is the library's default expiry).
Timeouts == {-1, 1}

\* What the native notify_notification_show can do: render, set the error
\* object, or return failure without setting it.
ShowOutcomes == {"shown", "error", "failed_silently"}

\* ------------------------------------------------------------------- state
VARIABLES
    initted,     \* the native library's process-wide "initialized" flag
    contexts,    \* the live Context values (identifiers)
    notifs,      \* the live Notification values: handle -> [ctx, shown]
    allocated,   \* the native notification objects allocated and not freed
    last,        \* the last operation: its arguments, result, native calls
    threads      \* the concurrent callers of Context::new

vars == <<initted, contexts, notifs, allocated, last, threads>>

Threads == {1, 2}

ContextIds == 1..MaxContexts

Handles == 1..MaxHandles

\* The state an operation started from, kept with the operation's record.
Snapshot ==
    [initted |-> initted, contexts |-> contexts, notifs |-> notifs,
     allocated |-> allocated]

\* The record of an operation: what was called with which arguments, what the
\* native layer answered (env), what the caller got back, and the native calls
\* made, in order.
Log(op, args, env, result, calls) ==
    [op |-> op, prev |-> last.prev, args |-> args, env |-> env, result |-> result,
     calls |-> calls, pre |-> Snapshot]

\* The record once the caller has taken the result: only the name of the
\* operation that returned is kept.
Returned(op) ==
    [op |-> "none", prev |-> op, args |-> <<>>, env |-> <<>>,
     result |-> [tag |-> "None"], calls |-> <<>>,
     pre |-> [initted |-> FALSE, contexts |-> {}, notifs |-> <<>>, allocated |-> {}]]

\* The single-threaded caller is between two calls: its calls are
\* synchronous, one at a time.
CallerIdle == last.op = "none"

FreshContext == CHOOSE c \in ContextIds \ contexts : \A d \in ContextIds \ contexts : c <= d

FreshHandle == CHOOSE h \in Handles \ allocated : \A g \in Handles \ allocated : h <= g

\* A caller of Context::new that has not called yet.
IdleThreads == [t \in Threads |-> [pc |-> "idle", app_name |-> <<>>, result |-> "None",
                                   ctx |-> 0]]

Init ==
    /\ initted = FALSE
    /\ contexts = {}
    /\ notifs = <<>>
    /\ allocated = {}
    /\ last = Returned("none")
    /\ threads = IdleThreads

\* ----------------------------------------------------------------- Context
\* (mutation) Context::new without its singleton test.
AlreadyInittedNever == FALSE

\* The test Context::new opens with: sys::notify_is_initted() == TRUE.
AlreadyInitted == initted

\* (mutation) a Context::new that builds its Context value first, so that
\* every error return drops it and calls notify_uninit.
ContextNewEarlyMarker(app_name) ==
    LET cs == CStringNew(app_name) IN
    /\ UNCHANGED <<notifs, allocated, threads>>
    /\ IF AlreadyInitted
       THEN /\ initted' = FALSE
            /\ UNCHANGED contexts
            /\ last' = Log("new", <<app_name>>, <<>>, [tag |-> "AlreadyExists"],
                           << <<"notify_is_initted">>, <<"notify_uninit">> >>)
       ELSE IF cs.tag = "NulError"
       THEN /\ UNCHANGED <<initted, contexts>>
            /\ last' = Log("new", <<app_name>>, <<>>, cs,
                           << <<"notify_is_initted">>, <<"notify_uninit">> >>)
       ELSE \E init_ok \in BOOLEAN :
            IF ~init_ok
            THEN /\ UNCHANGED <<initted, contexts>>
                 /\ last' = Log("new", <<app_name>>, <<init_ok>>, [tag |-> "InitError"],
                                << <<"notify_is_initted">>, <<"notify_init", cs.buf>>,
                                   <<"notify_uninit">> >>)
            ELSE /\ Cardinality(contexts) < MaxContexts
                 /\ initted' = TRUE
                 /\ contexts' = contexts \cup {FreshContext}
                 /\ last' = Log("new", <<app_name>>, <<init_ok>>,
                                [tag |-> "Ok", ctx |-> FreshContext],
                                << <<"notify_is_initted">>, <<"notify_init", cs.buf>> >>)

\* (mutation) a Context::new that drops the answer of notify_init.
ContextNewIgnoringInit(app_name) ==
    LET cs == CStringNew(app_name) IN
    /\ UNCHANGED <<notifs, allocated, threads>>
    /\ IF AlreadyInitted
       THEN /\ UNCHANGED <<initted, contexts>>
            /\ last' = Log("new", <<app_name>>, <<>>, [tag |-> "AlreadyExists"],
                           << <<"notify_is_initted">> >>)
       ELSE IF cs.tag = "NulError"
       THEN /\ UNCHANGED <<initted, contexts>>
            /\ last' = Log("new", <<app_name>>, <<>>, cs,
                           << <<"notify_is_initted">> >>)
       ELSE \E init_ok \in BOOLEAN :
            /\ Cardinality(contexts) < MaxContexts
            /\ initted' = init_ok
            /\ contexts' = contexts \cup {FreshContext}
            /\ last' = Log("new", <<app_name>>, <<init_ok>>,
                           [tag |-> "Ok", ctx |-> FreshContext],
                           << <<"notify_is_initted">>, <<"notify_init", cs.buf>> >>)

\* Context::new(app_name).  init_ok is the answer of the native notify_init,
\* which sets the library's initialized flag when it succeeds and leaves it
\* alone when it fails.
ContextNew(app_name) ==
    LET cs == CStringNew(app_name) IN
    /\ UNCHANGED <<notifs, allocated, threads>>
    /\ IF AlreadyInitted
       THEN /\ UNCHANGED <<initted, contexts>>
            /\ last' = Log("new", <<app_name>>, <<>>, [tag |-> "AlreadyExists"],
                           << <<"notify_is_initted">> >>)
       ELSE IF cs.tag = "NulError"
       THEN /\ UNCHANGED <<initted, contexts>>
            /\ last' = Log("new", <<app_name>>, <<>>, cs,
                           << <<"notify_is_initted">> >>)
       ELSE \E init_ok \in BOOLEAN :
            IF ~init_ok
            THEN /\ UNCHANGED <<initted, contexts>>
                 /\ last' = Log("new", <<app_name>>, <<init_ok>>, [tag |-> "InitError"],
                                << <<"notify_is_initted">>, <<"notify_init", cs.buf>> >>)
            ELSE /\ Cardinality(contexts) < MaxContexts
                 /\ initted' = TRUE
                 /\ contexts' = contexts \cup {FreshContext}
                 /\ last' = Log("new", <<app_name>>, <<init_ok>>,
                                [tag |-> "Ok", ctx |-> FreshContext],
                                << <<"notify_is_initted">>, <<"notify_init", cs.buf>> >>)

\* (mutation) a Notification that does not borrow its Context.
BorrowersNone(c) == {}

\* The Notifications that borrow Context c (Notification<'a> holds a
\* PhantomData<&'a Context>).
Borrowers(c) == {h \in DOMAIN notifs : notifs[h].ctx = c}

\* (mutation) a Context whose drop leaves the library initialized.
ContextDropNoUninit(c) ==
    /\ c \in contexts
    /\ Borrowers(c) = {}
    /\ contexts' = contexts \ {c}
    /\ last' = Log("drop", <<c>>, <<>>, [tag |-> "Ok"], <<>>)
    /\ UNCHANGED <<initted, notifs, allocated, threads>>

\* Drop for Context: notify_uninit(), unconditionally, which clears the
\* library's initialized flag.  A Context cannot be dropped while a
\* Notification borrows it.
ContextDrop(c) ==
    /\ c \in contexts
    /\ Borrowers(c) = {}
    /\ initted' = FALSE
    /\ contexts' = contexts \ {c}
    /\ last' = Log("drop", <<c>>, <<>>, [tag |-> "Ok"], << <<"notify_uninit">> >>)
    /\ UNCHANGED <<notifs, allocated, threads>>

\* (mutation) an optional string whose conversion error is dropped and the
\* field passed as absent.
ConvertOptLenient(o) ==
    IF o = <<>> \/ HasNul(o[1])
    THEN [tag |-> "Ok", ptr |-> <<>>]
    ELSE [tag |-> "Ok", ptr |-> <<Append(o[1], 0)>>]

\* One optional string: None becomes the null pointer (the empty tuple), Some
\* a pointer to its CString (a one-element tuple).
ConvertOpt(o) ==
    IF o = <<>>
    THEN [tag |-> "Ok", ptr |-> <<>>]
    ELSE LET cs == CStringNew(o[1]) IN
         IF cs.tag = "NulError" THEN cs ELSE [tag |-> "Ok", ptr |-> <<cs.buf>>]

\* (mutation) the conversions made in the order icon, body, summary.
ConvertFieldsIconFirst(summary, body, icon) ==
    LET s == CStringNew(summary)
        b == ConvertOpt(body)
        i == ConvertOpt(icon)
    IN  IF i.tag = "NulError" THEN i
        ELSE IF b.tag = "NulError" THEN b
        ELSE IF s.tag = "NulError" THEN s
        ELSE [tag |-> "Ok", summary |-> s.buf, body_ptr |-> b.ptr, icon_ptr |-> i.ptr]

\* The conversions new_notification and update open with: summary, then body,
\* then icon, each try! returning the first NulError.
ConvertFields(summary, body, icon) ==
    LET s == CStringNew(summary)
        b == ConvertOpt(body)
        i == ConvertOpt(icon)
    IN  IF s.tag = "NulError" THEN s
        ELSE IF b.tag = "NulError" THEN b
        ELSE IF i.tag = "NulError" THEN i
        ELSE [tag |-> "Ok", summary |-> s.buf, body_ptr |-> b.ptr, icon_ptr |-> i.ptr]

\* Context::new_notification(&self, summary, body, icon).  alloc_ok tells
\* whether the native notify_notification_new returns an object (or null).
NewNotification(c, summary, body, icon) ==
    LET f == ConvertFields(summary, body, icon) IN
    /\ c \in contexts
    /\ UNCHANGED <<initted, contexts, threads>>
    /\ IF f.tag = "NulError"
       THEN /\ UNCHANGED <<notifs, allocated>>
            /\ last' = Log("new_notification", <<c, summary, body, icon>>, <<>>, f, <<>>)
       ELSE \E alloc_ok \in BOOLEAN :
            IF ~alloc_ok
            THEN /\ UNCHANGED <<notifs, allocated>>
                 /\ last' = Log("new_notification", <<c, summary, body, icon>>, <<alloc_ok>>,
                                [tag |-> "Unknown"],
                                << <<"notify_notification_new", f.summary, f.body_ptr, f.icon_ptr>> >>)
            ELSE /\ Cardinality(allocated) < MaxHandles
                 /\ allocated' = allocated \cup {FreshHandle}
                 /\ notifs' = notifs @@ (FreshHandle :> [ctx |-> c, shown |-> FALSE])
                 /\ last' = Log("new_notification", <<c, summary, body, icon>>, <<alloc_ok>>,
                                [tag |-> "Ok", handle |-> FreshHandle],
                                << <<"notify_notification_new", f.summary, f.body_ptr, f.icon_ptr>> >>)

\* ------------------------------------------------------------ Notification
\* What the native notify_notification_show can answer: an outcome and, with
\* the outcome "error", the message of the error object it sets.
ShowAnswers ==
    {<<o>> : o \in ShowOutcomes \ {"error"}} \cup {<<"error", m>> : m \in Messages}

\* (mutation) a show that never releases the error object.
ShowCallsLeaking(h, answer) == << <<"notify_notification_show", h>> >>

\* The native calls of Notification::show on handle h: the show call and,
\* when it set the error object, g_error_free on that object.
ShowCalls(h, answer) ==
    IF answer[1] = "error"
    THEN << <<"notify_notification_show", h>>, <<"g_error_free", answer[2]>> >>
    ELSE << <<"notify_notification_show", h>> >>

\* What Notification::show returns: an error exactly when the error object is
\* set, with the object's message.
ShowResult(answer) ==
    IF answer[1] = "error"
    THEN [tag |-> "NotificationShowError", message |-> CStrToString(answer[2])]
    ELSE [tag |-> "Ok"]

\* (mutation) a show that renders only a Notification not shown yet.
NotificationShowOnce(h) ==
    /\ h \in DOMAIN notifs
    /\ IF notifs[h].shown
       THEN /\ UNCHANGED notifs
            /\ last' = Log("show", <<h>>, <<"shown">>, [tag |-> "Ok"], <<>>)
       ELSE \E answer \in ShowAnswers :
            /\ notifs' = IF answer[1] = "shown"
                         THEN [notifs EXCEPT ![h].shown = TRUE]
                         ELSE notifs
            /\ last' = Log("show", <<h>>, answer, ShowResult(answer), ShowCalls(h, answer))
    /\ UNCHANGED <<initted, contexts, allocated, threads>>

\* Notification::show(&self).
NotificationShow(h) ==
    /\ h \in DOMAIN notifs
    /\ \E answer \in ShowAnswers :
          /\ notifs' = IF answer[1] = "shown"
                       THEN [notifs EXCEPT ![h].shown = TRUE]
                       ELSE notifs
          /\ last' = Log("show", <<h>>, answer, ShowResult(answer), ShowCalls(h, answer))
    /\ UNCHANGED <<initted, contexts, allocated, threads>>

\* Notification::set_notification_timeout(&self, timeout).
SetNotificationTimeout(h, timeout) ==
    /\ h \in DOMAIN notifs
    /\ last' = Log("set_notification_timeout", <<h, timeout>>, <<>>, [tag |-> "Ok"],
                   << <<"notify_notification_set_timeout", h, timeout>> >>)
    /\ UNCHANGED <<initted, contexts, notifs, allocated, threads>>

\* (mutation) an update that pushes the change to the display itself.
NotificationUpdateShowing(h, summary, body, icon) ==
    LET f == ConvertFields(summary, body, icon) IN
    /\ h \in DOMAIN notifs
    /\ UNCHANGED <<initted, contexts, allocated, threads>>
    /\ IF f.tag = "NulError"
       THEN /\ UNCHANGED notifs
            /\ last' = Log("update", <<h, summary, body, icon>>, <<>>, f, <<>>)
       ELSE /\ notifs' = [notifs EXCEPT ![h].shown = TRUE]
            /\ last' = Log("update", <<h, summary, body, icon>>, <<TRUE>>, [tag |-> "Ok"],
                           << <<"notify_notification_update", h, f.summary, f.body_ptr, f.icon_ptr>>,
                              <<"notify_notification_show", h>> >>)

\* Notification::update(&self, summary, body, icon).  update_ok is the answer
\* of the native notify_notification_update.
NotificationUpdate(h, summary, body, icon) ==
    LET f == ConvertFields(summary, body, icon) IN
    /\ h \in DOMAIN notifs
    /\ UNCHANGED <<initted, contexts, notifs, allocated, threads>>
    /\ IF f.tag = "NulError"
       THEN last' = Log("update", <<h, summary, body, icon>>, <<>>, f, <<>>)
       ELSE \E update_ok \in BOOLEAN :
            last' = Log("update", <<h, summary, body, icon>>, <<update_ok>>,
                        IF update_ok THEN [tag |-> "Ok"] ELSE [tag |-> "InvalidParameter"],
                        << <<"notify_notification_update", h, f.summary, f.body_ptr, f.icon_ptr>> >>)

\* A Notification going out of scope.  Notification has no Drop
\* implementation: the value goes, no native call is made, and the native
\* object stays allocated.
NotificationDrop(h) ==
    /\ h \in DOMAIN notifs
    /\ notifs' = [g \in DOMAIN notifs \ {h} |-> notifs[g]]
    /\ last' = Log("drop_notification", <<h>>, <<>>, [tag |-> "Ok"], <<>>)
    /\ UNCHANGED <<initted, contexts, allocated, threads>>

\* (mutation) a Context::show that drops the result of the Notification's
\* show.
ContextShowSwallowing(c, summary, body, icon) ==
    LET f == ConvertFields(summary, body, icon) IN
    /\ c \in contexts
    /\ UNCHANGED <<initted, contexts, notifs, threads>>
    /\ IF f.tag = "NulError"
       THEN /\ UNCHANGED allocated
            /\ last' = Log("context_show", <<c, summary, body, icon>>, <<>>, f, <<>>)
       ELSE \E alloc_ok \in BOOLEAN :
            IF ~alloc_ok
            THEN /\ UNCHANGED allocated
                 /\ last' = Log("context_show", <<c, summary, body, icon>>, <<alloc_ok>>,
                                [tag |-> "Unknown"],
                                << <<"notify_notification_new", f.summary, f.body_ptr, f.icon_ptr>> >>)
            ELSE /\ Cardinality(allocated) < MaxHandles
                 /\ allocated' = allocated \cup {FreshHandle}
                 /\ \E answer \in ShowAnswers :
                       last' = Log("context_show", <<c, summary, body, icon>>,
                                   <<alloc_ok>> \o answer, [tag |-> "Ok"],
                                   << <<"notify_notification_new", f.summary, f.body_ptr, f.icon_ptr>> >>
                                      \o ShowCalls(FreshHandle, answer))

\* Context::show(&self, summary, body, icon): new_notification, then show on
\* the Notification, which goes out of scope when the call returns.
ContextShow(c, summary, body, icon) ==
    LET f == ConvertFields(summary, body, icon) IN
    /\ c \in contexts
    /\ UNCHANGED <<initted, contexts, notifs, threads>>
    /\ IF f.tag = "NulError"
       THEN /\ UNCHANGED allocated
            /\ last' = Log("context_show", <<c, summary, body, icon>>, <<>>, f, <<>>)
       ELSE \E alloc_ok \in BOOLEAN :
            IF ~alloc_ok
            THEN /\ UNCHANGED allocated
                 /\ last' = Log("context_show", <<c, summary, body, icon>>, <<alloc_ok>>,
                                [tag |-> "Unknown"],
                                << <<"notify_notification_new", f.summary, f.body_ptr, f.icon_ptr>> >>)
            ELSE /\ Cardinality(allocated) < MaxHandles
                 /\ allocated' = allocated \cup {FreshHandle}
                 /\ \E answer \in ShowAnswers :
                       last' = Log("context_show", <<c, summary, body, icon>>,
                                   <<alloc_ok>> \o answer, ShowResult(answer),
                                   << <<"notify_notification_new", f.summary, f.body_ptr, f.icon_ptr>> >>
                                      \o ShowCalls(FreshHandle, answer))

\* ------------------------------------------------- single-threaded program
\* The caller takes the result of the call it made.
Return ==
    /\ ~CallerIdle
    /\ last' = Returned(last.op)
    /\ UNCHANGED <<initted, contexts, notifs, allocated, threads>>

\* The single-threaded caller's calls in any order, with any arguments, one
\* at a time.
Next ==
    \/ CallerIdle /\ \E app_name \in Strings : ContextNew(app_name)
    \/ CallerIdle /\ \E c \in ContextIds : ContextDrop(c)
    \/ CallerIdle /\ \E c \in ContextIds, summary \in Strings, body \in OptStrings,
                        icon \in OptStrings :
                        NewNotification(c, summary, body, icon)
    \/ CallerIdle /\ \E c \in ContextIds, summary \in Strings, body \in OptStrings,
                        icon \in OptStrings :
                        ContextShow(c, summary, body, icon)
    \/ CallerIdle /\ \E h \in Handles : NotificationShow(h)
    \/ CallerIdle /\ \E h \in Handles, timeout \in Timeouts : SetNotificationTimeout(h, timeout)
    \/ CallerIdle /\ \E h \in Handles, summary \in Strings, body \in OptStrings,
                        icon \in OptStrings :
                        NotificationUpdate(h, summary, body, icon)
    \/ CallerIdle /\ \E h \in Handles : NotificationDrop(h)
    \/ Return

Spec == Init /\ [][Next]_vars

\* ---------------------------------------------------- concurrent Context::new
\* Context is a unit struct, Send and Sync, and Context::new a safe function:
\* two threads may call it at once.  Each call is the sequence of its native
\* calls: the notify_is_initted test, then (after the CString conversion)
\* notify_init.  Nothing in Context::new makes the two one step.
ThreadCall(t, app_name) ==
    /\ threads[t].pc = "idle"
    /\ threads' = [threads EXCEPT ![t].pc = "check", ![t].app_name = app_name]
    /\ UNCHANGED <<initted, contexts, notifs, allocated, last>>

\* if sys::notify_is_initted() == TRUE { return Err(AlreadyExists) }
ThreadCheck(t) ==
    /\ threads[t].pc = "check"
    /\ threads' = IF AlreadyInitted
                  THEN [threads EXCEPT ![t].pc = "done", ![t].result = "AlreadyExists"]
                  ELSE [threads EXCEPT ![t].pc = "init"]
    /\ UNCHANGED <<initted, contexts, notifs, allocated, last>>

\* The rest of Context::new: the CString conversion and notify_init.
ThreadInit(t) ==
    LET cs == CStringNew(threads[t].app_name) IN
    /\ threads[t].pc = "init"
    /\ UNCHANGED <<notifs, allocated, last>>
    /\ IF cs.tag = "NulError"
       THEN /\ threads' = [threads EXCEPT ![t].pc = "done", ![t].result = "NulError"]
            /\ UNCHANGED <<initted, contexts>>
       ELSE \E init_ok \in BOOLEAN :
            IF ~init_ok
            THEN /\ threads' = [threads EXCEPT ![t].pc = "done", ![t].result = "InitError"]
                 /\ UNCHANGED <<initted, contexts>>
            ELSE /\ Cardinality(contexts) < MaxContexts
                 /\ initted' = TRUE
                 /\ contexts' = contexts \cup {FreshContext}
                 /\ threads' = [threads EXCEPT ![t].pc = "done", ![t].result = "Ok",
                                               ![t].ctx = FreshContext]

\* The thread drops the Context it got: notify_uninit().
ThreadDrop(t) ==
    /\ threads[t].pc = "done"
    /\ threads[t].result = "Ok"
    /\ initted' = FALSE
    /\ contexts' = contexts \ {threads[t].ctx}
    /\ threads' = [threads EXCEPT ![t].pc = "dropped"]
    /\ UNCHANGED <<notifs, allocated, last>>

InitConc ==
    /\ initted = FALSE
    /\ contexts = {}
    /\ notifs = <<>>
    /\ allocated = {}
    /\ last = Returned("none")
    /\ threads = IdleThreads

NextConc ==
    \/ \E t \in Threads, app_name \in Strings : ThreadCall(t, app_name)
    \/ \E t \in Threads : ThreadCheck(t)
    \/ \E t \in Threads : ThreadInit(t)
    \/ \E t \in Threads : ThreadDrop(t)

SpecConc == InitConc /\ [][NextConc]_vars

\* ================================================================ properties
\* The native calls of the last operation that are calls of fn.
CallsOf(fn) == {i \in 1..Len(last.calls) : last.calls[i][1] = fn}

OptHasNul(o) == o # <<>> /\ HasNul(o[1])

\* The last operation left the wrapper's and the native library's state as
\* it found it.
StateKept ==
    /\ initted = last.pre.initted
    /\ contexts = last.pre.contexts
    /\ notifs = last.pre.notifs
    /\ allocated = last.pre.allocated

\* C1: in single-threaded use, whatever creates and destroys were made with
\* whatever names and native init answers, at most one Context is live.
C1_AtMostOneContext == Cardinality(contexts) <= 1

\* A create was attempted while a Context was live, and one is live after it.
C1_Witness == last.op = "new" /\ last.pre.contexts # {} /\ Cardinality(contexts) = 1

\* C2: two concurrent creates with null-free names, started when no Context
\* exists and both answered success by the native init they reach: exactly one
\* succeeds and the other fails with AlreadyExists.
C2_ExactlyOneCreate ==
    (\A t \in Threads : /\ threads[t].pc = "done"
                        /\ ~HasNul(threads[t].app_name)
                        /\ threads[t].result # "InitError")
    => \E t \in Threads : /\ threads[t].result = "Ok"
                          /\ \A u \in Threads \ {t} : threads[u].result = "AlreadyExists"

\* C3: destroying a Context resets the singleton state, and the create that
\* follows a destroy, given a null-free name, fails only if the native init
\* reports failure: it succeeds whenever the native init succeeds.
C3_DropResetsSingleton ==
    /\ last.op = "drop" => ~initted /\ contexts = {}
    /\ (last.op = "new" /\ last.prev = "drop" /\ ~HasNul(last.args[1]))
       => /\ last.result.tag \in {"Ok", "InitError"}
          /\ last.result.tag = "InitError" <=> last.env = <<FALSE>>
          /\ last.result.tag = "Ok" => initted /\ contexts = {last.result.ctx}

\* A create that followed a destroy succeeded.
C3_Witness == last.op = "new" /\ last.prev = "drop" /\ last.result.tag = "Ok"

\* C4: a create made while a Context is live fails with AlreadyExists whatever
\* the name, calls neither notify_init nor notify_uninit, and leaves the
\* Context live and the library initialized.
C4_SecondCreateRejected ==
    (last.op = "new" /\ last.pre.contexts # {})
    => /\ last.result.tag = "AlreadyExists"
       /\ CallsOf("notify_init") = {}
       /\ CallsOf("notify_uninit") = {}
       /\ StateKept
       /\ initted
       /\ contexts # {}

\* A create with a name holding a null byte was made while a Context was live.
C4_Witness == last.op = "new" /\ last.pre.contexts # {} /\ HasNul(last.args[1])

\* C5: new_notification and update, given a summary, body or icon that holds a
\* null byte, fail with NulError and make no native call; no native object is
\* created or updated.
C5_NulTextNoNativeCall ==
    (/\ last.op \in {"new_notification", "update"}
     /\ \/ HasNul(last.args[2])
        \/ OptHasNul(last.args[3])
        \/ OptHasNul(last.args[4]))
    => /\ last.result.tag = "NulError"
       /\ last.calls = <<>>
       /\ StateKept

\* An update whose icon alone holds a null byte was made.
C5_Witness ==
    /\ last.op = "update"
    /\ ~HasNul(last.args[2])
    /\ ~OptHasNul(last.args[3])
    /\ OptHasNul(last.args[4])

\* C6, as stated: a create whose app_name holds a null byte fails with
\* NulError and has made no native call.
C6_NulNameNoNativeCall ==
    (last.op = "new" /\ HasNul(last.args[1]))
    => last.result.tag = "NulError" /\ last.calls = <<>>

\* C6, amended: a create whose app_name holds a null byte never reaches
\* notify_init; the one native call it makes is the notify_is_initted query,
\* and it fails with NulError when the query answers not initialized and with
\* AlreadyExists when it answers initialized.
C6_NulNameBeforeInit ==
    (last.op = "new" /\ HasNul(last.args[1]))
    => /\ last.calls = << <<"notify_is_initted">> >>
       /\ last.result.tag = IF last.pre.initted THEN "AlreadyExists" ELSE "NulError"
       /\ StateKept

\* A create with a name holding a null byte failed with NulError.
C6_Witness == last.op = "new" /\ HasNul(last.args[1]) /\ last.result.tag = "NulError"

\* C7: an update, successful or failed, makes no native show call and leaves
\* every Notification's shown state as it was.
C7_UpdateNeverRenders ==
    last.op = "update"
    => /\ CallsOf("notify_notification_show") = {}
       /\ notifs = last.pre.notifs

\* An update succeeded on a Notification never shown, which is still not shown.
C7_Witness ==
    /\ last.op = "update"
    /\ last.result.tag = "Ok"
    /\ ~notifs[last.args[1]].shown

\* C8: every show makes exactly one native show call, first; when that call
\* renders, show returns success and the Notification is shown, whether it was
\* shown before or not.
C8_ShowIdempotent ==
    last.op = "show"
    => /\ Cardinality(CallsOf("notify_notification_show")) = 1
       /\ last.calls[1] = <<"notify_notification_show", last.args[1]>>
       /\ last.env = <<"shown">>
          => last.result.tag = "Ok" /\ notifs[last.args[1]].shown
       /\ last.pre.notifs[last.args[1]].shown => notifs[last.args[1]].shown

\* A show succeeded on a Notification that the show before it had shown.
C8_Witness ==
    /\ last.op = "show"
    /\ last.prev = "show"
    /\ last.pre.notifs[last.args[1]].shown
    /\ last.env = <<"shown">>
    /\ last.result.tag = "Ok"

\* C9: the Context of every live Notification is live, and show, update and
\* set_notification_timeout are only ever made on a Notification whose Context
\* is live, the library being initialized.
C9_NotificationWithinContext ==
    /\ \A h \in DOMAIN notifs : notifs[h].ctx \in contexts
    /\ last.op \in {"show", "update", "set_notification_timeout"}
       => /\ last.args[1] \in DOMAIN last.pre.notifs
          /\ last.pre.notifs[last.args[1]].ctx \in last.pre.contexts
          /\ last.pre.initted

\* A Context that had created Notifications was destroyed, after them.
C9_Witness == last.op = "drop" /\ allocated # {} /\ notifs = <<>> /\ contexts = {}

\* C10: the native objects allocated are those of the live Notifications: a
\* Notification that went out of scope has had its native object freed.
C10_HandlesFreed == Cardinality(allocated) = Cardinality(DOMAIN notifs)

\* C11: Notification::show fails with NotificationShowError exactly when the
\* native show call sets the error object; the error then carries the object's
\* message and the object is released by exactly one g_error_free, made after
\* the show call; when no error object is set, show succeeds and g_error_free
\* is not called.
C11_ShowErrorFromErrorObject ==
    last.op = "show"
    => /\ last.result.tag = "NotificationShowError" <=> last.env[1] = "error"
       /\ last.env[1] = "error"
          => /\ Append(last.result.message, 0) = last.env[2]
             /\ Cardinality(CallsOf("g_error_free")) = 1
             /\ last.calls = << <<"notify_notification_show", last.args[1]>>,
                                <<"g_error_free", last.env[2]>> >>
       /\ last.env[1] # "error"
          => /\ last.result.tag = "Ok"
             /\ CallsOf("g_error_free") = {}

\* A show failed with the non-empty message of the error object the native
\* call had set.
C11_Witness ==
    /\ last.op = "show"
    /\ last.env[1] = "error"
    /\ last.result.tag = "NotificationShowError"
    /\ Len(last.result.message) > 0

\* Some text of the Context::show call recorded holds a null byte.
ShowTextHasNul ==
    \/ HasNul(last.args[2])
    \/ OptHasNul(last.args[3])
    \/ OptHasNul(last.args[4])

\* C12: Context::show is new_notification followed by the Notification's show.
\* A text with a null byte gives NulError and no native call; a null native
\* object gives Unknown and no native show call; otherwise the native object
\* is shown once, after its construction, and the result is that of the show:
\* an error exactly when the error object is set.  No Notification is live
\* after the call that was not live before.
C12_ContextShowComposition ==
    last.op = "context_show"
    => /\ notifs = last.pre.notifs
       /\ ShowTextHasNul
          => last.result.tag = "NulError" /\ last.calls = <<>>
       /\ (~ShowTextHasNul /\ last.env = <<FALSE>>)
          => /\ last.result.tag = "Unknown"
             /\ CallsOf("notify_notification_show") = {}
             /\ CallsOf("notify_notification_new") = {1}
       /\ (~ShowTextHasNul /\ last.env # <<FALSE>>)
          => /\ last.env[1] = TRUE
             /\ last.calls[1][1] = "notify_notification_new"
             /\ CallsOf("notify_notification_new") = {1}
             /\ CallsOf("notify_notification_show") = {2}
             /\ last.result.tag = "NotificationShowError" <=> last.env[2] = "error"
             /\ last.env[2] = "error" => Append(last.result.message, 0) = last.env[3]
             /\ last.env[2] # "error" => last.result.tag = "Ok"
       /\ last.result.tag = "Ok"
          => ~ShowTextHasNul /\ Len(last.env) = 2 /\ last.env[1] = TRUE /\ last.env[2] # "error"

\* A Context::show built its Notification and failed in the show step.
C12_Witness ==
    /\ last.op = "context_show"
    /\ last.result.tag = "NotificationShowError"
    /\ CallsOf("notify_notification_new") = {1}
    /\ notifs = last.pre.notifs

\* C13: every failure the native layer reports comes back as a typed error: a
\* failing notify_init as InitError, a null notify_notification_new as
\* Unknown, a failing notify_notification_update as InvalidParameter, and a
\* notify_notification_show that reports failure, with or without an error
\* object, as a failed show.
C13_NativeFailureReturned ==
    /\ (last.op = "new" /\ last.env = <<FALSE>>) => last.result.tag = "InitError"
    /\ (last.op = "new_notification" /\ last.env = <<FALSE>>) => last.result.tag = "Unknown"
    /\ (last.op = "update" /\ last.env = <<FALSE>>) => last.result.tag = "InvalidParameter"
    /\ (last.op = "show" /\ last.env[1] \in {"error", "failed_silently"})
       => last.result.tag = "NotificationShowError"

\* The result is the NulError of CString::new on s: it holds the bytes of s
\* and the position (from 0) of the first null byte of s.
IsNulErrorOf(result, s) ==
    /\ result.tag = "NulError"
    /\ result.bytes = s
    /\ result.pos \in 0..(Len(s) - 1)
    /\ s[result.pos + 1] = 0
    /\ \A j \in 1..result.pos : s[j] # 0

\* C14: new_notification and update return the NulError of the first of
\* summary, body, icon that holds a null byte, whatever the fields after it
\* hold; an absent body or icon causes no error, and texts without a null
\* byte give no NulError.
C14_FirstNulFieldReported ==
    last.op \in {"new_notification", "update"}
    => /\ HasNul(last.args[2]) => IsNulErrorOf(last.result, last.args[2])
       /\ (~HasNul(last.args[2]) /\ OptHasNul(last.args[3]))
          => IsNulErrorOf(last.result, last.args[3][1])
       /\ (~HasNul(last.args[2]) /\ ~OptHasNul(last.args[3]) /\ OptHasNul(last.args[4]))
          => IsNulErrorOf(last.result, last.args[4][1])
       /\ (~HasNul(last.args[2]) /\ ~OptHasNul(last.args[3]) /\ ~OptHasNul(last.args[4]))
          => last.result.tag # "NulError"

\* An update with a clean summary and a null byte in both body and icon, the
\* two differing, returned the error of the body.
C14_Witness ==
    /\ last.op = "update"
    /\ ~HasNul(last.args[2])
    /\ OptHasNul(last.args[3])
    /\ OptHasNul(last.args[4])
    /\ last.args[3] # last.args[4]
    /\ last.result.tag = "NulError"
    /\ last.result.bytes = last.args[3][1]

\* C15: in single-threaded use the library is initialized exactly while a
\* Context is live.  notify_uninit is called only by the drop of a Context,
\* once, and that Context was live and is gone; no create calls it, whatever
\* its result.  notify_init is called only by create, at most once, and its
\* success is what makes the Context.
C15_InitUninitBalanced ==
    /\ initted <=> contexts # {}
    /\ CallsOf("notify_uninit") # {} => last.op = "drop"
    /\ CallsOf("notify_init") # {} => last.op = "new"
    /\ last.op = "drop"
       => /\ Cardinality(CallsOf("notify_uninit")) = 1
          /\ last.args[1] \in last.pre.contexts
          /\ contexts = last.pre.contexts \ {last.args[1]}
    /\ last.op = "new"
       => /\ Cardinality(CallsOf("notify_init")) <= 1
          /\ last.result.tag = "Ok"
             => /\ Cardinality(CallsOf("notify_init")) = 1
                /\ contexts = last.pre.contexts \cup {last.result.ctx}
                /\ last.result.ctx \notin last.pre.contexts
          /\ last.result.tag # "Ok" => contexts = last.pre.contexts

\* A Context was dropped, right after a create, and the library is no longer
\* initialized.
C15_Witness ==
    /\ last.op = "drop"
    /\ last.prev = "new"
    /\ last.pre.initted
    /\ ~initted
    /\ contexts = {}

\* C16: a create made when no Context exists, with a name holding a null byte
\* or a native init that fails, returns NulError or InitError, makes no
\* Context and leaves the singleton state as it was; and the create that
\* follows a create which left no Context, given a null-free name, fails only
\* if the native init fails.
C16_FailedCreateRecoverable ==
    /\ (/\ last.op = "new"
        /\ last.pre.contexts = {}
        /\ HasNul(last.args[1]) \/ last.env = <<FALSE>>)
       => /\ last.result.tag = IF HasNul(last.args[1]) THEN "NulError" ELSE "InitError"
          /\ StateKept
          /\ ~initted
          /\ contexts = {}
    /\ (/\ last.op = "new"
        /\ last.prev = "new"
        /\ last.pre.contexts = {}
        /\ ~HasNul(last.args[1]))
       => /\ last.result.tag \in {"Ok", "InitError"}
          /\ last.result.tag = "InitError" <=> last.env = <<FALSE>>
          /\ last.result.tag = "Ok" => initted /\ contexts = {last.result.ctx}

\* A create succeeded right after a create that had left no Context.
C16_Witness ==
    /\ last.op = "new"
    /\ last.prev = "new"
    /\ last.pre.contexts = {}
    /\ ~last.pre.initted
    /\ last.result.tag = "Ok"

====
